---- MODULE Spec2Model ----
(***************************************************************************)
(* eth-metrics: the process guard (src/src/child_guard.rs), the Runner     *)
(* (src/src/runner.rs) and the run loop (src/src/main.rs) as one state     *)
(* machine.                                                                *)
(*                                                                         *)
(* Threads: the main thread (position mpc), one forced-kill watchdog per   *)
(* terminate() that passed its guards (wd[r]), one readiness timer per     *)
(* wait_until_ready() (timer).  The monitored processes are the            *)
(* environment (proc[r], pid[r]).                                          *)
(*                                                                         *)
(* Time: one model tick is one DATA_COLLECTION_INTERVAL (500 ms).  The     *)
(* durations of runner.rs are scaled down so that a run has a handful of   *)
(* samples: DATA_COLLECTION_DURATION keeps twice ANALYSIS_TIME_SKIP, and   *)
(* BLOCK_SPEEDS_AVERAGE_DURATION is a whole number of intervals.  The two  *)
(* sleeps of the background threads (10 s, 5 s) are not measured: a        *)
(* sleeping thread may wake at any later step.                             *)
(***************************************************************************)
EXTENDS Integers, Sequences, FiniteSets, TLC

\* ---------------------------------------------------------------- constants
\* src/src/main.rs:31
NUM_RUNS == 3
\* src/src/runner.rs:24-27, in ticks of one DATA_COLLECTION_INTERVAL (scaled)
DATA_COLLECTION_INTERVAL == 1
DATA_COLLECTION_DURATION == 6
ANALYSIS_TIME_SKIP == 3
BLOCK_SPEEDS_AVERAGE_DURATION == 2

\* ------------------------------------------------------------------- bounds
\* process ids the OS hands out (a reaped child's id may be handed out again)
MaxPid == 2
\* longest time, in ticks, the health check and the two reads of one
\* collect_data iteration may take on top of the sleep
MaxLatency == 5
\* largest growth of the block number between two reads
MaxInc == 1
\* src/src/runner.rs:28
MIN_PEERS == 75
\* calls a client of one ChildGuard makes in GuardSpec
MaxCalls == 3
\* ResampleSpec: the longest raw series, and the largest distance, in ticks,
\* between two of its samples
MaxSamples == 5
MaxGap == 3
\* the ports of the range get_available_ports probes (8000..9000 in the
\* source, runner.rs:41)
MaxPort == 2

Runs == 1..NUM_RUNS
Pids == 1..MaxPid
PortRange == 1..MaxPort

VARIABLES
    mpc,            \* position of the main thread
    run,            \* run_idx + 1 of main.rs's loop: the current run
    num_runs,       \* how many runs the driver of the Runner makes
    err,            \* the error run() returns ("none": Ok so far)
    failed_step,    \* the step of the run loop that returned err
    runner_child,   \* Runner.child: Option<ChildGuard>
    guard_child,    \* ChildGuard.child: Option<Child>, of the current guard
    terminated,     \* ChildGuard.terminated, the Arc<AtomicBool> of run r's guard
    web3,           \* Runner.web3
    tmp_dir,        \* Runner.tmp_dir
    proc,           \* the child process of run r: unborn, running, zombie, reaped
    pid,            \* its process id (0: not spawned)
    wd,             \* the watchdog thread terminate() spawned for run r
    timedout,       \* wait_until_ready's Arc<AtomicBool> of the current call
    timer,          \* the timer thread of the current wait_until_ready call
    elapsed,        \* collect_data's locals
    times,
    cur_heights,
    cur_peers,
    block_number,
    block_heights,  \* Runner.block_heights, block_speeds, peer_counts
    block_speeds,
    peer_counts,
    report,         \* what analyse wrote (<<>>: nothing)
    plotted,        \* plot ran
    sig,            \* history: signals sent, per run and sender
    hist,           \* history: what the claims observe (see HistInit)
    ports,          \* start's local: the ports get_available_ports has collected
    avail           \* the ports of the probed range that nothing is bound to

vars == <<mpc, run, num_runs, err, failed_step, runner_child, guard_child,
          terminated, web3, tmp_dir, proc, pid, wd, timedout, timer, elapsed,
          times, cur_heights, cur_peers, block_number, block_heights,
          block_speeds, peer_counts, report, plotted, sig, hist, ports, avail>>

runnerVars == <<run, num_runs, ports, avail, web3, tmp_dir, block_heights, block_speeds,
                peer_counts, report, plotted>>
collectVars == <<elapsed, times, cur_heights, cur_peers, block_number>>
timerVars == <<timedout, timer>>

\* ------------------------------------------------------------------ history
\* sig[r]: term = SIGTERMs terminate() sent, wkill = SIGKILLs the watchdog
\* sent, dkill = SIGKILLs Drop sent, late = signals sent to pid[r] after
\* the child of run r was reaped.
SigInit == [r \in Runs |-> [term |-> 0, wkill |-> 0, dkill |-> 0, late |-> 0]]
\* hist[r]: grace = "exited"/"running": whether the child had exited when the
\* watchdog's sleep ended ("none": it has not ended); calls = terminate()
\* calls on the guard; waits = child.wait() calls that returned; spawns =
\* watchdogs spawned; checks = check() calls of the GuardSpec client;
\* atterm = "running"/"exited": the child's state when terminate() sent
\* SIGTERM.
HistInit ==
    [r \in Runs |-> [grace |-> "none", calls |-> 0, waits |-> 0, spawns |-> 0,
                     checks |-> 0, atterm |-> "none"]]

\* ------------------------------------------------------------ the processes
\* kill(p, s): the signal reaches whichever unreaped process holds p now.
\* SIGKILL ends a running process; SIGTERM asks it to exit, which it may do
\* at any later step (ChildExit) or never; a zombie ignores both.
Holder(p) == {r \in Runs : pid[r] = p /\ proc[r] \in {"running", "zombie"}}

KillEffect(p, signal) ==
    [r \in Runs |-> IF r \in Holder(p) /\ signal = "SIGKILL" /\ proc[r] = "running"
                    THEN "zombie" ELSE proc[r]]

\* The signal `field` sent by a thread of run r to pid[r].
Sent(r, field) ==
    [sig EXCEPT ![r][field] = @ + 1,
                ![r].late = IF proc[r] = "reaped" THEN @ + 1 ELSE @]

\* The monitored process exits by itself: a crash, or its answer to SIGTERM.
ChildExit(r) ==
    /\ mpc # "exited"
    /\ proc[r] = "running"
    /\ proc' = [proc EXCEPT ![r] = "zombie"]
    /\ UNCHANGED <<mpc, err, failed_step, runner_child, guard_child, terminated,
                   pid, wd, sig, hist, runnerVars, collectVars, timerVars>>

\* --------------------------------------------------------------- ChildGuard
\* check(): "Ok" when the guard holds no child or try_wait() finds it
\* running; when try_wait() finds it exited the child is taken out of the
\* guard, reaped, and the call returns the exited-unexpectedly error.
\* (try_wait() and wait_with_output() failing in the OS are left out.)
\* A child terminate() has already waited for keeps its exit status, which
\* try_wait() returns as well.
check_result ==
    IF guard_child = "Some" /\ proc[run] \in {"zombie", "reaped"}
    THEN "ProcessDied" ELSE "Ok"

check_effect ==
    IF check_result = "ProcessDied"
    THEN /\ proc' = [proc EXCEPT ![run] = "reaped"]
         /\ guard_child' = "None"
    ELSE UNCHANGED <<proc, guard_child>>

\* terminate() without the load of the flag.
terminate_ignores_flag == guard_child = "None"

\* terminate() without the look at the child.
terminate_ignores_child == terminated[run]

\* terminate(), lines 44-51: return at once when the flag is set or the
\* guard holds no child.
terminate_returns_early == terminated[run] \/ guard_child = "None"

TermEnter ==
    /\ mpc = "t_enter"
    /\ mpc' = IF terminate_returns_early THEN "t_ret" ELSE "t_sigterm"
    /\ hist' = [hist EXCEPT ![run].calls = @ + 1]
    /\ UNCHANGED <<err, failed_step, runner_child, guard_child, terminated, proc,
                   pid, wd, sig, runnerVars, collectVars, timerVars>>

\* terminate(), lines 53-57: kill(child_id, SIGTERM).
TermSigterm ==
    /\ mpc = "t_sigterm"
    /\ proc' = KillEffect(pid[run], "SIGTERM")
    /\ sig' = Sent(run, "term")
    /\ hist' = [hist EXCEPT ![run].atterm = IF proc[run] = "running" THEN "running"
                                                                     ELSE "exited"]
    /\ mpc' = "t_spawn"
    /\ UNCHANGED <<err, failed_step, runner_child, guard_child, terminated, pid,
                   wd, runnerVars, collectVars, timerVars>>

\* terminate(), line 59: thread::spawn of the watchdog.
TermSpawn ==
    /\ mpc = "t_spawn"
    /\ wd' = [wd EXCEPT ![run] = "sleeping"]
    /\ hist' = [hist EXCEPT ![run].spawns = @ + 1]
    /\ mpc' = "t_wait"
    /\ UNCHANGED <<err, failed_step, runner_child, guard_child, terminated, proc,
                   pid, sig, runnerVars, collectVars, timerVars>>

\* A wait that returns without the child having exited.
TermWait_NoBlock ==
    /\ mpc = "t_wait"
    /\ hist' = [hist EXCEPT ![run].waits = @ + 1]
    /\ mpc' = "t_store"
    /\ UNCHANGED <<err, failed_step, runner_child, guard_child, terminated, proc,
                   pid, wd, sig, runnerVars, collectVars, timerVars>>

\* terminate(), line 69: child.wait() blocks until the child has exited and
\* reaps it (a Child that was already waited for returns its stored status).
TermWait ==
    /\ mpc = "t_wait"
    /\ proc[run] \in {"zombie", "reaped"}
    /\ proc' = [proc EXCEPT ![run] = "reaped"]
    /\ hist' = [hist EXCEPT ![run].waits = @ + 1]
    /\ mpc' = "t_store"
    /\ UNCHANGED <<err, failed_step, runner_child, guard_child, terminated, pid,
                   wd, sig, runnerVars, collectVars, timerVars>>

\* terminate(), line 70: terminated.store(true).
TermStore ==
    /\ mpc = "t_store"
    /\ terminated' = [terminated EXCEPT ![run] = TRUE]
    /\ mpc' = "t_ret"
    /\ UNCHANGED <<err, failed_step, runner_child, guard_child, proc, pid, wd,
                   sig, hist, runnerVars, collectVars, timerVars>>

\* A watchdog that repeats the graceful signal.
WatchdogKill_Sigterm(r) ==
    /\ mpc # "exited"
    /\ wd[r] = "killing"
    /\ proc' = KillEffect(pid[r], "SIGTERM")
    /\ sig' = Sent(r, "wkill")
    /\ wd' = [wd EXCEPT ![r] = "done"]
    /\ UNCHANGED <<mpc, err, failed_step, runner_child, guard_child, terminated,
                   pid, hist, runnerVars, collectVars, timerVars>>

\* The watchdog, lines 59-67.  Its threads die with the tool (mpc = "exited").
WatchdogWake(r) ==
    /\ mpc # "exited"
    /\ wd[r] = "sleeping"
    /\ wd' = [wd EXCEPT ![r] = "woken"]
    /\ hist' = [hist EXCEPT ![r].grace = IF proc[r] = "running" THEN "running"
                                                                ELSE "exited"]
    /\ UNCHANGED <<mpc, err, failed_step, runner_child, guard_child, terminated,
                   proc, pid, sig, runnerVars, collectVars, timerVars>>

WatchdogLoad(r) ==
    /\ mpc # "exited"
    /\ wd[r] = "woken"
    /\ wd' = [wd EXCEPT ![r] = IF ~terminated[r] THEN "killing" ELSE "done"]
    /\ UNCHANGED <<mpc, err, failed_step, runner_child, guard_child, terminated,
                   proc, pid, sig, hist, runnerVars, collectVars, timerVars>>

WatchdogKill(r) ==
    /\ mpc # "exited"
    /\ wd[r] = "killing"
    /\ proc' = KillEffect(pid[r], "SIGKILL")
    /\ sig' = Sent(r, "wkill")
    /\ wd' = [wd EXCEPT ![r] = "done"]
    /\ UNCHANGED <<mpc, err, failed_step, runner_child, guard_child, terminated,
                   pid, hist, runnerVars, collectVars, timerVars>>

\* Drop without the load of the flag.
drop_ignores_flag == guard_child = "Some"

\* Drop for ChildGuard, lines 74-89: SIGKILL unless the flag is set or the
\* guard holds no child.
drop_kills == ~terminated[run] /\ guard_child = "Some"

ChildGuardDrop ==
    IF drop_kills
    THEN /\ proc' = KillEffect(pid[run], "SIGKILL")
         /\ sig' = Sent(run, "dkill")
    ELSE UNCHANGED <<proc, sig>>

\* ------------------------------------------------ GuardSpec: one ChildGuard
\* A client that owns one guard around a running child and calls check(),
\* terminate() and at last drops it, in any order.
EmptyRuns(v) == [r \in Runs |-> v]

GuardInit ==
    /\ mpc = "client" /\ run = 1 /\ num_runs = 1
    /\ err = "none" /\ failed_step = "none"
    /\ runner_child = "Some" /\ guard_child = "Some"
    /\ terminated = EmptyRuns(FALSE)
    /\ web3 = "None" /\ tmp_dir = "None"
    /\ proc = [EmptyRuns("unborn") EXCEPT ![1] = "running"]
    /\ pid = [EmptyRuns(0) EXCEPT ![1] = 1]
    /\ wd = EmptyRuns("none")
    /\ timedout = FALSE /\ timer = "none"
    /\ elapsed = 0 /\ times = <<>> /\ cur_heights = <<>> /\ cur_peers = <<>>
    /\ block_number = 0
    /\ block_heights = <<>> /\ block_speeds = <<>> /\ peer_counts = <<>>
    /\ report = <<>> /\ plotted = FALSE
    /\ sig = SigInit /\ hist = HistInit
    /\ ports = <<>> /\ avail = {}

ClientCalls == hist[run].calls + hist[run].checks

ClientCheck ==
    /\ mpc = "client"
    /\ ClientCalls < MaxCalls
    /\ check_effect
    /\ err' = IF check_result = "Ok" THEN "none" ELSE check_result
    /\ hist' = [hist EXCEPT ![run].checks = @ + 1]
    /\ UNCHANGED <<mpc, failed_step, runner_child, terminated, pid, wd, sig,
                   runnerVars, collectVars, timerVars>>

ClientTerminate ==
    /\ mpc = "client"
    /\ ClientCalls < MaxCalls
    /\ mpc' = "t_enter"
    /\ UNCHANGED <<err, failed_step, runner_child, guard_child, terminated, proc,
                   pid, wd, sig, hist, runnerVars, collectVars, timerVars>>

ClientTerminateReturn ==
    /\ mpc = "t_ret"
    /\ mpc' = "client"
    /\ UNCHANGED <<err, failed_step, runner_child, guard_child, terminated, proc,
                   pid, wd, sig, hist, runnerVars, collectVars, timerVars>>

ClientDrop ==
    /\ mpc = "client"
    /\ ChildGuardDrop
    /\ runner_child' = "None"
    /\ mpc' = "dropped"
    /\ UNCHANGED <<err, failed_step, guard_child, terminated, pid, wd, hist,
                   runnerVars, collectVars, timerVars>>

GuardNext ==
    \/ ClientCheck
    \/ ClientTerminate
    \/ ClientTerminateReturn
    \/ ClientDrop
    \/ TermEnter
    \/ TermSigterm
    \/ TermSpawn
    \/ TermWait
    \/ TermStore
    \/ \E r \in Runs : WatchdogWake(r)
    \/ \E r \in Runs : WatchdogLoad(r)
    \/ \E r \in Runs : WatchdogKill(r)
    \/ \E r \in Runs : ChildExit(r)

GuardSpec == GuardInit /\ [][GuardNext]_vars

\* ------------------------------------------------------------------- Runner
\* The state after Runner::new (runner.rs:73-85), before the first run.
RunnerInit(n) ==
    /\ mpc = "start" /\ run = 1 /\ num_runs = n
    /\ err = "none" /\ failed_step = "none"
    /\ runner_child = "None" /\ guard_child = "None"
    /\ terminated = EmptyRuns(FALSE)
    /\ web3 = "None" /\ tmp_dir = "None"
    /\ proc = EmptyRuns("unborn")
    /\ pid = EmptyRuns(0)
    /\ wd = EmptyRuns("none")
    /\ timedout = FALSE /\ timer = "none"
    /\ elapsed = 0 /\ times = <<>> /\ cur_heights = <<>> /\ cur_peers = <<>>
    /\ block_number = 0
    /\ block_heights = <<>> /\ block_speeds = <<>> /\ peer_counts = <<>>
    /\ report = <<>> /\ plotted = FALSE
    /\ sig = SigInit /\ hist = HistInit
    /\ ports = <<>> /\ avail = {}

\* The error of a step kept for later while the loop is left for analyse.
Fail_ThenAnalyse(e, step) ==
    /\ err' = e
    /\ failed_step' = step
    /\ mpc' = IF step \in {"analyse", "plot"} THEN "unwind" ELSE "analyse"

\* A step of the run loop returns Err(e): run() returns through `?`.
Fail(e, step) ==
    /\ err' = e
    /\ failed_step' = step
    /\ mpc' = "unwind"

\* The ids a spawn may get: any id no unreaped process holds.  Ids are only
\* names, so of the ids never handed out the least stands for all.
FreePids ==
    {p \in Pids : /\ Holder(p) = {}
                  /\ \A q \in Pids : q < p => \E r \in Runs : pid[r] = q}

\* start(), lines 106-119: staging the data directory fails (the local
\* TempDir is dropped, the Runner is unchanged), or it succeeds and the
\* ports are probed.  avail: the ports nothing is bound to during this call.
Start ==
    /\ mpc = "start"
    /\ \/ /\ Fail("StartFailed", "start")
          /\ UNCHANGED <<ports, avail>>
       \/ /\ mpc' = "probe"
          /\ ports' = <<>>
          /\ \E a \in SUBSET PortRange : avail' = a
          /\ UNCHANGED <<err, failed_step>>
    /\ UNCHANGED <<run, num_runs, runner_child, guard_child, terminated, proc,
                   pid, web3, tmp_dir, block_heights, block_speeds, peer_counts,
                   report, plotted, wd, sig, hist, collectVars, timerVars>>

\* port_is_available(), lines 47-52: a listener can be bound to the port
\* (and is dropped at once).
port_is_available(port) == port \in avail

\* get_available_ports(), lines 38-45: an endless stream of random ports of
\* the range, filtered by port_is_available; the first two that pass are
\* collected.  One step is one sampled port.
StartProbe ==
    /\ mpc = "probe"
    /\ \E port \in PortRange :
        IF port_is_available(port)
        THEN /\ ports' = Append(ports, port)
             /\ mpc' = IF Len(ports') = 2 THEN "spawn" ELSE "probe"
        ELSE UNCHANGED <<ports, mpc>>
    /\ UNCHANGED <<run, num_runs, avail, err, failed_step, runner_child,
                   guard_child, terminated, proc, pid, web3, tmp_dir,
                   block_heights, block_speeds, peer_counts, report, plotted,
                   wd, sig, hist, collectVars, timerVars>>

\* start(), lines 121-150: the length check of the ports, then the spawn
\* with --port ports[0] and --jsonrpc-port ports[1], which fails or gives
\* the child a process id no unreaped process holds; the Runner takes the
\* guard, the endpoint client and the directory.
StartSpawn ==
    /\ mpc = "spawn"
    /\ ports' = <<>>
    /\ avail' = {}
    /\ IF Len(ports) < 2
       THEN /\ Fail("PortUnavailable", "start")
            /\ UNCHANGED <<runner_child, guard_child, terminated, proc, pid,
                           web3, tmp_dir>>
       ELSE \/ /\ Fail("StartFailed", "start")
               /\ UNCHANGED <<runner_child, guard_child, terminated, proc, pid,
                              web3, tmp_dir>>
            \/ \E p \in FreePids :
                /\ proc' = [proc EXCEPT ![run] = "running"]
                /\ pid' = [pid EXCEPT ![run] = p]
                /\ runner_child' = "Some"
                /\ guard_child' = "Some"
                /\ terminated' = [terminated EXCEPT ![run] = FALSE]
                /\ web3' = "Some"
                /\ tmp_dir' = "Some"
                /\ mpc' = "w_enter"
                /\ UNCHANGED <<err, failed_step>>
    /\ UNCHANGED <<run, num_runs, block_heights, block_speeds, peer_counts,
                   report, plotted, wd, sig, hist, collectVars, timerVars>>

\* wait_until_ready(), lines 174-185: a fresh flag and its timer thread.
WaitEnter ==
    /\ mpc = "w_enter"
    /\ IF web3 = "None"
       THEN Fail("NotStarted", "wait_until_ready") /\ UNCHANGED timerVars
       ELSE /\ timedout' = FALSE
            /\ timer' = "sleeping"
            /\ mpc' = "w_check"
            /\ UNCHANGED <<err, failed_step>>
    /\ UNCHANGED <<runner_child, guard_child, terminated, proc, pid, wd, sig,
                   hist, runnerVars, collectVars>>

\* The timer thread, lines 182-185.
TimerFire ==
    /\ mpc # "exited"
    /\ timer = "sleeping"
    /\ timedout' = TRUE
    /\ timer' = "done"
    /\ UNCHANGED <<mpc, err, failed_step, runner_child, guard_child, terminated,
                   proc, pid, wd, sig, hist, runnerVars, collectVars>>

\* The loop of wait_until_ready with the flag of the timer read before the
\* health check.
WaitCheck_TimeoutFirst ==
    /\ mpc = "w_check"
    /\ IF timedout
       THEN Fail("Timeout", "wait_until_ready") /\ UNCHANGED <<proc, guard_child>>
       ELSE /\ check_effect
            /\ IF check_result = "Ok"
               THEN mpc' = "w_query" /\ UNCHANGED <<err, failed_step>>
               ELSE Fail(check_result, "wait_until_ready")
    /\ UNCHANGED <<runner_child, terminated, pid, wd, sig, hist, runnerVars,
                   collectVars, timerVars>>

\* The loop of wait_until_ready, lines 188-191: the health check.
WaitCheck ==
    /\ mpc = "w_check"
    /\ IF runner_child = "Some"
       THEN /\ check_effect
            /\ IF check_result = "Ok"
               THEN mpc' = "w_timedout" /\ UNCHANGED <<err, failed_step>>
               ELSE Fail(check_result, "wait_until_ready")
       ELSE mpc' = "w_timedout" /\ UNCHANGED <<err, failed_step, proc, guard_child>>
    /\ UNCHANGED <<runner_child, terminated, pid, wd, sig, hist, runnerVars,
                   collectVars, timerVars>>

\* lines 192-194: the flag of the timer.
WaitTimedout ==
    /\ mpc = "w_timedout"
    /\ IF timedout
       THEN Fail("Timeout", "wait_until_ready")
       ELSE mpc' = "w_query" /\ UNCHANGED <<err, failed_step>>
    /\ UNCHANGED <<runner_child, guard_child, terminated, proc, pid, wd, sig,
                   hist, runnerVars, collectVars, timerVars>>

\* lines 195-203: block_number().wait() blocks until the endpoint answers
\* (only a running process answers Ok); on Err the loop sleeps 500 ms and
\* starts over.  No answer: no step.  After Ok the call returns and nothing
\* reads the flag again: the timer thread's store is not followed further.
WaitQueryDone ==
    /\ mpc = "w_query"
    /\ \/ /\ proc[run] = "running"
          /\ mpc' = "c_enter"
          /\ timedout' = FALSE
          /\ timer' = "none"
       \/ /\ mpc' = "w_check"
          /\ UNCHANGED timerVars
    /\ UNCHANGED <<err, failed_step, runner_child, guard_child, terminated, proc,
                   pid, wd, sig, hist, runnerVars, collectVars>>

\* collect_data(), lines 211-226: the locals of one run.
CollectEnter ==
    /\ mpc = "c_enter"
    /\ IF web3 = "None"
       THEN Fail("NotStarted", "collect_data") /\ UNCHANGED collectVars
       ELSE /\ elapsed' = 0
            /\ times' = <<>>
            /\ cur_heights' = <<>>
            /\ cur_peers' = <<>>
            /\ block_number' = 0
            /\ mpc' = IF 0 < DATA_COLLECTION_DURATION THEN "c_check" ELSE "c_finish"
            /\ UNCHANGED <<err, failed_step>>
    /\ UNCHANGED <<runner_child, guard_child, terminated, proc, pid, wd, sig,
                   hist, runnerVars, timerVars>>

\* lines 229-232: the health check of one iteration.
CollectCheck ==
    /\ mpc = "c_check"
    /\ IF runner_child = "Some"
       THEN /\ check_effect
            /\ IF check_result = "Ok"
               THEN mpc' = "c_block" /\ UNCHANGED <<err, failed_step>>
               ELSE Fail(check_result, "collect_data")
       ELSE mpc' = "c_block" /\ UNCHANGED <<err, failed_step, proc, guard_child>>
    /\ UNCHANGED <<runner_child, terminated, pid, wd, sig, hist, runnerVars,
                   collectVars, timerVars>>

\* The read of the block number keeping the samples taken so far when it
\* fails.
CollectBlock_KeepsPartial(incs) ==
    /\ mpc = "c_block"
    /\ \/ /\ proc[run] = "running"
          /\ \E inc \in incs : block_number' = block_number + inc
          /\ mpc' = "c_peer"
          /\ UNCHANGED <<err, failed_step, block_heights>>
       \/ /\ Fail("ReadFailed", "collect_data")
          /\ block_heights' = Append(block_heights, <<times, cur_heights>>)
          /\ UNCHANGED block_number
    /\ UNCHANGED <<runner_child, guard_child, terminated, proc, pid, wd, sig,
                   hist, run, num_runs, ports, avail, web3, tmp_dir, block_speeds, peer_counts,
                   report, plotted, timerVars, elapsed, times, cur_heights,
                   cur_peers>>

\* lines 233-236: the block number, which never decreases within a run.
CollectBlock(incs) ==
    /\ mpc = "c_block"
    /\ \/ /\ proc[run] = "running"
          /\ \E inc \in incs : block_number' = block_number + inc
          /\ mpc' = "c_peer"
          /\ UNCHANGED <<err, failed_step>>
       \/ /\ Fail("ReadFailed", "collect_data")
          /\ UNCHANGED block_number
    /\ UNCHANGED <<runner_child, guard_child, terminated, proc, pid, wd, sig,
                   hist, runnerVars, timerVars, elapsed, times, cur_heights,
                   cur_peers>>

\* lines 237-255: the peer count; the sample is pushed with the elapsed time
\* measured at the end of the iteration before; then the sleep of one
\* interval and the new elapsed time, which also holds the time `lat` this
\* iteration's check and reads took.
loop_continues(e) == e < DATA_COLLECTION_DURATION

\* The new elapsed time taken without the sleep of one interval.
CollectPeer_NoSleep(lats, peers) ==
    /\ mpc = "c_peer"
    /\ \/ /\ proc[run] = "running"
          /\ \E p \in peers, lat \in lats :
                /\ times' = Append(times, elapsed)
                /\ cur_heights' = Append(cur_heights, block_number)
                /\ cur_peers' = Append(cur_peers, p)
                /\ elapsed' = elapsed + lat
                /\ mpc' = IF loop_continues(elapsed') THEN "c_check" ELSE "c_finish"
          /\ UNCHANGED <<err, failed_step>>
       \/ /\ Fail("ReadFailed", "collect_data")
          /\ UNCHANGED <<elapsed, times, cur_heights, cur_peers>>
    /\ UNCHANGED <<runner_child, guard_child, terminated, proc, pid, wd, sig,
                   hist, runnerVars, timerVars, block_number>>

CollectPeer(lats, peers) ==
    /\ mpc = "c_peer"
    /\ \/ /\ proc[run] = "running"
          /\ \E p \in peers, lat \in lats :
                /\ times' = Append(times, elapsed)
                /\ cur_heights' = Append(cur_heights, block_number)
                /\ cur_peers' = Append(cur_peers, p)
                /\ elapsed' = elapsed + lat + DATA_COLLECTION_INTERVAL
                /\ mpc' = IF loop_continues(elapsed') THEN "c_check" ELSE "c_finish"
          /\ UNCHANGED <<err, failed_step>>
       \/ /\ Fail("ReadFailed", "collect_data")
          /\ UNCHANGED <<elapsed, times, cur_heights, cur_peers>>
    /\ UNCHANGED <<runner_child, guard_child, terminated, proc, pid, wd, sig,
                   hist, runnerVars, timerVars, block_number>>

\* line 263: (times.len() as f64 / duration * avg_secs) as usize.  With one
\* sample the duration is 0.0 and the quotient infinite: the cast saturates
\* (usize::MAX) or, in builds older than the saturating cast, is undefined;
\* both outcomes are kept.  (The rounding of f64 is left out: the quotient
\* is the exact one, truncated.)
USIZE_MAX == 2147483647

avg_factors(ts) ==
    LET len == Len(ts)
        duration == ts[len]
    IN  IF duration = 0
        THEN {0, USIZE_MAX}
        ELSE {(len * BLOCK_SPEEDS_AVERAGE_DURATION) \div duration}

\* The speeds taken over the nominal window instead of the measured one.
block_speeds_line_NominalWindow(ts, hs, avg_factor) ==
    LET n == (Len(ts) - 1) \div avg_factor
        cur(i) == i * avg_factor + 1
        prev(i) == (i - 1) * avg_factor + 1
    IN  << <<0>> \o [i \in 1..(n - 1) |-> ts[cur(i)]],
           << <<0, 1>> >> \o
               [i \in 1..(n - 1) |-> <<hs[cur(i)] - hs[prev(i)], BLOCK_SPEEDS_AVERAGE_DURATION>>] >>

\* lines 265-283: the leading point, then one point per window of
\* avg_factor samples, for index in 1..((len - 1) / avg_factor).  A rate is
\* kept as the pair <<block_count, elapsed>> of its quotient.
block_speeds_line(ts, hs, avg_factor) ==
    LET n == (Len(ts) - 1) \div avg_factor
        cur(i) == i * avg_factor + 1
        prev(i) == (i - 1) * avg_factor + 1
    IN  << <<0>> \o [i \in 1..(n - 1) |-> ts[cur(i)]],
           << <<0, 1>> >> \o
               [i \in 1..(n - 1) |-> <<hs[cur(i)] - hs[prev(i)], ts[cur(i)] - ts[prev(i)]>>] >>

\* The results of the run stored in place of the earlier runs' results.
CollectFinish_Overwrites ==
    /\ mpc = "c_finish"
    /\ \E f \in avg_factors(times) :
        IF f = 0
        THEN /\ Fail("Panic", "collect_data")
             /\ UNCHANGED <<block_heights, block_speeds, peer_counts>>
        ELSE /\ block_heights' = << <<times, cur_heights>> >>
             /\ block_speeds' = Append(block_speeds, block_speeds_line(times, cur_heights, f))
             /\ peer_counts' = Append(peer_counts, <<times, cur_peers>>)
             /\ mpc' = "s_enter"
             /\ UNCHANGED <<err, failed_step>>
    /\ elapsed' = 0 /\ times' = <<>> /\ cur_heights' = <<>> /\ cur_peers' = <<>>
    /\ block_number' = 0
    /\ UNCHANGED <<run, num_runs, ports, avail, web3, tmp_dir, report, plotted,
                   runner_child, guard_child, terminated, proc, pid, wd, sig,
                   hist, timerVars>>

\* lines 257-290: the speeds, then the three pushes.  A window of 0 samples
\* is a division by zero: the thread panics.  The locals go out of scope.
CollectFinish ==
    /\ mpc = "c_finish"
    /\ \E f \in avg_factors(times) :
        IF f = 0
        THEN /\ Fail("Panic", "collect_data")
             /\ UNCHANGED <<block_heights, block_speeds, peer_counts>>
        ELSE /\ block_heights' = Append(block_heights, <<times, cur_heights>>)
             /\ block_speeds' = Append(block_speeds, block_speeds_line(times, cur_heights, f))
             /\ peer_counts' = Append(peer_counts, <<times, cur_peers>>)
             /\ mpc' = "s_enter"
             /\ UNCHANGED <<err, failed_step>>
    /\ elapsed' = 0 /\ times' = <<>> /\ cur_heights' = <<>> /\ cur_peers' = <<>>
    /\ block_number' = 0
    /\ UNCHANGED <<run, num_runs, ports, avail, web3, tmp_dir, report, plotted, runner_child,
                   guard_child, terminated, proc, pid, wd, sig, hist, timerVars>>

\* stop() without the call of terminate().
StopEnter_SkipsTerminate ==
    /\ mpc = "s_enter"
    /\ web3' = "None"
    /\ IF runner_child = "None"
       THEN Fail("NotStarted", "stop")
       ELSE mpc' = "t_ret" /\ UNCHANGED <<err, failed_step>>
    /\ UNCHANGED <<run, num_runs, ports, avail, tmp_dir, block_heights,
                   block_speeds, peer_counts, report, plotted, runner_child,
                   guard_child, terminated, proc, pid, wd, sig, hist,
                   collectVars, timerVars>>

\* stop(), lines 153-162: drop the endpoint client, call terminate().
StopEnter ==
    /\ mpc = "s_enter"
    /\ web3' = "None"
    /\ IF runner_child = "None"
       THEN Fail("NotStarted", "stop")
       ELSE mpc' = "t_enter" /\ UNCHANGED <<err, failed_step>>
    /\ UNCHANGED <<run, num_runs, ports, avail, tmp_dir, block_heights, block_speeds,
                   peer_counts, report, plotted, runner_child, guard_child,
                   terminated, proc, pid, wd, sig, hist, collectVars, timerVars>>

\* line 164: self.child = None drops the guard.
StopDropChild ==
    /\ mpc = "t_ret"
    /\ ChildGuardDrop
    /\ runner_child' = "None"
    /\ guard_child' = "None"
    /\ mpc' = "s_close"
    /\ UNCHANGED <<err, failed_step, terminated, pid, wd, hist, runnerVars,
                   collectVars, timerVars>>

\* lines 166-169: close the temporary directory; then main.rs's loop, lines
\* 50-79: the next run, or analyse after the last.
StopClose ==
    /\ mpc = "s_close"
    /\ tmp_dir' = "None"
    /\ \/ /\ tmp_dir = "Some"
          /\ Fail("CloseFailed", "stop")
          /\ UNCHANGED run
       \/ /\ IF run < num_runs
             THEN run' = run + 1 /\ mpc' = "start"
             ELSE run' = run /\ mpc' = "analyse"
          /\ UNCHANGED <<err, failed_step>>
    /\ UNCHANGED <<num_runs, ports, avail, web3, block_heights, block_speeds, peer_counts,
                   report, plotted, runner_child, guard_child, terminated, proc,
                   pid, wd, sig, hist, collectVars, timerVars>>

\* analyse(), lines 303 and 319: the two warm-up skip indexes.
peer_skip_index == ANALYSIS_TIME_SKIP \div DATA_COLLECTION_INTERVAL
speed_skip_index == ANALYSIS_TIME_SKIP \div BLOCK_SPEEDS_AVERAGE_DURATION

\* values[skip_index..] panics when skip_index is beyond the length.
slice_panics(values, skip_index) == skip_index > Len(values)

slice_from(values, skip_index) == SubSeq(values, skip_index + 1, Len(values))

Min(S) == CHOOSE x \in S : \A y \in S : x <= y
Max(S) == CHOOSE x \in S : \A y \in S : x >= y
RECURSIVE Sum(_)
Sum(q) == IF q = <<>> THEN 0 ELSE Head(q) + Sum(Tail(q))
Range(q) == {q[i] : i \in 1..Len(q)}

\* lines 306-309: min, max, mean over the slice (the mean as sum and count;
\* the standard deviation is a function of the same slice).  statrs gives
\* NaN for an empty slice.
peer_stats(values) ==
    IF values = <<>> THEN "NaN"
    ELSE [min |-> Min(Range(values)), max |-> Max(Range(values)),
          sum |-> Sum(values), n |-> Len(values)]

analyse_panics ==
    \/ \E i \in 1..Len(peer_counts) : slice_panics(peer_counts[i][2], peer_skip_index)
    \/ \E i \in 1..Len(block_speeds) : slice_panics(block_speeds[i][2], speed_skip_index)

\* lines 305-330: one entry per run.
analyse_report ==
    [i \in 1..Len(block_heights) |->
        [peers |-> peer_stats(slice_from(peer_counts[i][2], peer_skip_index)),
         speeds |-> slice_from(block_speeds[i][2], speed_skip_index),
         max |-> block_heights[i][2][Len(block_heights[i][2])]]]

\* analyse(), lines 293-339.
Analyse ==
    /\ mpc = "analyse"
    /\ IF Len(block_heights) = 0
       THEN Fail("NoData", "analyse") /\ UNCHANGED report
       ELSE IF analyse_panics
       THEN Fail("Panic", "analyse") /\ UNCHANGED report
       ELSE \/ Fail("IoError", "analyse") /\ UNCHANGED report
            \/ /\ report' = analyse_report
               /\ mpc' = "plot"
               /\ UNCHANGED <<err, failed_step>>
    /\ UNCHANGED <<run, num_runs, ports, avail, web3, tmp_dir, block_heights, block_speeds,
                   peer_counts, plotted, runner_child, guard_child, terminated,
                   proc, pid, wd, sig, hist, collectVars, timerVars>>

\* plot(), lines 342-354; then run() returns Ok and the Runner is dropped.
Plot ==
    /\ mpc = "plot"
    /\ IF Len(block_heights) = 0
       THEN Fail("NoData", "plot") /\ UNCHANGED plotted
       ELSE /\ plotted' = TRUE
            /\ mpc' = "unwind"
            /\ UNCHANGED <<err, failed_step>>
    /\ UNCHANGED <<run, num_runs, ports, avail, web3, tmp_dir, block_heights, block_speeds,
                   peer_counts, report, runner_child, guard_child, terminated,
                   proc, pid, wd, sig, hist, collectVars, timerVars>>

\* Drop for Runner, lines 357-362, when run() returns or unwinds: the
\* temporary directory is closed first.  close() failing makes unwrap()
\* panic: a second panic while unwinding aborts the tool, a first one goes
\* on to drop the fields.
RunnerDrop ==
    /\ mpc = "unwind"
    /\ tmp_dir' = "None"
    /\ \/ /\ mpc' = "unwind_child"
          /\ UNCHANGED <<err, failed_step>>
       \/ /\ tmp_dir = "Some"
          /\ mpc' = IF err = "Panic" THEN "exited" ELSE "unwind_child"
          /\ err' = "Panic"
          /\ failed_step' = IF failed_step = "none" THEN "drop" ELSE failed_step
    /\ UNCHANGED <<run, num_runs, ports, avail, web3, block_heights, block_speeds, peer_counts,
                   report, plotted, runner_child, guard_child, terminated, proc,
                   pid, wd, sig, hist, collectVars, timerVars>>

\* Then the fields of the Runner are dropped, the guard among them; main
\* returns or calls exit(1), which ends every thread.
RunnerDropChild ==
    /\ mpc = "unwind_child"
    /\ IF runner_child = "Some" THEN ChildGuardDrop ELSE UNCHANGED <<proc, sig>>
    /\ runner_child' = "None"
    /\ guard_child' = "None"
    /\ mpc' = "exited"
    /\ UNCHANGED <<err, failed_step, terminated, pid, wd, hist, runnerVars,
                   collectVars, timerVars>>

\* ------------------------------------------------------- Spec: the program
\* main.rs's run(): NUM_RUNS runs, then analyse and plot.  The endpoint of
\* the three runs answers without delay, one block and one peer count.
Init == RunnerInit(NUM_RUNS)

Next ==
    \/ Start
    \/ StartProbe
    \/ StartSpawn
    \/ WaitEnter
    \/ WaitCheck
    \/ WaitTimedout
    \/ WaitQueryDone
    \/ CollectEnter
    \/ CollectCheck
    \/ CollectBlock({1})
    \/ CollectPeer({0}, {MIN_PEERS})
    \/ CollectFinish
    \/ StopEnter
    \/ TermEnter
    \/ TermSigterm
    \/ TermSpawn
    \/ TermWait
    \/ TermStore
    \/ StopDropChild
    \/ StopClose
    \/ Analyse
    \/ Plot
    \/ RunnerDrop
    \/ RunnerDropChild
    \/ TimerFire
    \/ \E r \in Runs : WatchdogWake(r)
    \/ \E r \in Runs : WatchdogLoad(r)
    \/ \E r \in Runs : WatchdogKill(r)
    \/ \E r \in Runs : ChildExit(r)

Spec == Init /\ [][Next]_vars

\* -------------------------------------------------- RunSpec: a single run
\* The Runner driven through one run and then analyse and plot, with an
\* endpoint that may be slow (up to MaxLatency ticks an iteration), whose
\* block number grows by up to MaxInc a read and which reports MIN_PEERS
\* peers.
Incs == 0..MaxInc
Latencies == 0..MaxLatency
PeerCounts == {MIN_PEERS}

RunInit == RunnerInit(1)

MainStep ==
    \/ Start
    \/ StartProbe
    \/ StartSpawn
    \/ WaitEnter
    \/ WaitCheck
    \/ WaitTimedout
    \/ CollectEnter
    \/ CollectCheck
    \/ CollectFinish
    \/ StopEnter
    \/ TermEnter
    \/ TermSigterm
    \/ TermSpawn
    \/ TermWait
    \/ TermStore
    \/ StopDropChild
    \/ StopClose
    \/ Analyse
    \/ Plot
    \/ RunnerDrop
    \/ RunnerDropChild

RunNext ==
    \/ MainStep
    \/ WaitQueryDone
    \/ CollectBlock(Incs)
    \/ CollectPeer(Latencies, PeerCounts)
    \/ TimerFire
    \/ \E r \in Runs : WatchdogWake(r)
    \/ \E r \in Runs : WatchdogLoad(r)
    \/ \E r \in Runs : WatchdogKill(r)
    \/ \E r \in Runs : ChildExit(r)

RunSpec == RunInit /\ [][RunNext]_vars

\* The scheduler runs every thread of the tool that can take a step: the
\* main thread (a call that waits for the endpoint's answer or for the
\* child's exit returns only when that comes), the timer, the watchdogs.
\* Nothing makes a running process answer or exit; the query of an endpoint
\* whose process has exited fails (its sockets are closed).
QueryRefused == WaitQueryDone /\ proc[run] # "running"

Fairness ==
    /\ WF_vars(MainStep)
    /\ WF_vars(QueryRefused)
    /\ WF_vars(TimerFire)
    /\ \A r \in Runs : WF_vars(WatchdogWake(r))
    /\ \A r \in Runs : WF_vars(WatchdogLoad(r))
    /\ \A r \in Runs : WF_vars(WatchdogKill(r))

FairRunSpec == RunSpec /\ Fairness

\* ------------------------------- ResampleSpec: the resampling of one series
\* collect_data at the end of its loop (line 257) with a raw series of up to
\* MaxSamples samples: the first at 0, the others 1..MaxGap ticks after the
\* one before (the interval plus the iteration's latency), the block number
\* growing by 0..MaxInc a sample.  The resampling does not read
\* DATA_COLLECTION_DURATION, so the series are those of a loop of any
\* duration.
RECURSIVE SumTo(_, _)
SumTo(d, k) == IF k = 0 THEN 0 ELSE d[k] + SumTo(d, k - 1)

SeriesOf(n, d) == [j \in 1..n |-> SumTo(d, j - 1)]

ResampleInit ==
    /\ mpc = "c_finish" /\ run = 1 /\ num_runs = 1
    /\ err = "none" /\ failed_step = "none"
    /\ runner_child = "Some" /\ guard_child = "Some"
    /\ terminated = EmptyRuns(FALSE)
    /\ web3 = "Some" /\ tmp_dir = "Some"
    /\ proc = [EmptyRuns("unborn") EXCEPT ![1] = "running"]
    /\ pid = [EmptyRuns(0) EXCEPT ![1] = 1]
    /\ wd = EmptyRuns("none")
    /\ timedout = FALSE /\ timer = "none"
    /\ \E n \in 1..MaxSamples :
        \E d \in [1..(n - 1) -> 1..MaxGap], k \in [1..(n - 1) -> Incs] :
            /\ times = SeriesOf(n, d)
            /\ cur_heights = SeriesOf(n, k)
            /\ cur_peers = [j \in 1..n |-> MIN_PEERS]
            /\ elapsed = SumTo(d, n - 1) + DATA_COLLECTION_INTERVAL
            /\ block_number = SumTo(k, n - 1)
    /\ block_heights = <<>> /\ block_speeds = <<>> /\ peer_counts = <<>>
    /\ report = <<>> /\ plotted = FALSE
    /\ sig = SigInit /\ hist = HistInit
    /\ ports = <<>> /\ avail = {}

ResampleNext == CollectFinish

ResampleSpec == ResampleInit /\ [][ResampleNext]_vars

\* =================================================================== claims
MainMoves == mpc' # mpc
Results == <<block_heights, block_speeds, peer_counts>>
Unwinding == {"unwind", "unwind_child", "exited"}

\* C1: for every terminate() on a running process, if the grace period ends
\* before the process has exited the watchdog sends SIGKILL exactly once,
\* and if the process exits before the grace period ends no SIGKILL is ever
\* sent, under every interleaving of the watchdog and the terminating
\* thread.
C1_GraceKill ==
    \A r \in Runs :
        hist[r].atterm = "running" =>
            /\ sig[r].wkill <= 1
            /\ hist[r].grace = "exited" => sig[r].wkill = 0
            /\ (hist[r].grace = "running" /\ wd[r] = "done") => sig[r].wkill = 1

\* C2: no signal, from terminate(), the watchdog or Drop, is ever sent to
\* the process id of a child that has been reaped.
C2_NoSignalAfterReap == \A r \in Runs : sig[r].late = 0

\* C3: terminate() is idempotent: a call made after a call has completed
\* sends no signal, spawns no watchdog, does not wait and returns at once;
\* over all calls the graceful signal is sent at most once.
C3_TerminateIdempotent ==
    /\ [](\A r \in Runs : sig[r].term <= 1 /\ hist[r].spawns <= 1 /\ hist[r].waits <= 1)
    /\ [][(mpc = "t_enter" /\ terminated[run] /\ MainMoves) =>
            /\ mpc' = "t_ret"
            /\ sig'[run].term = sig[run].term
            /\ hist'[run].spawns = hist[run].spawns
            /\ hist'[run].waits = hist[run].waits]_vars

C3_SecondCallReturned ==
    /\ mpc = "t_ret"
    /\ hist[1].calls = 2
    /\ terminated[1]
    /\ sig[1].term = 1 /\ hist[1].spawns = 1 /\ hist[1].waits = 1

\* C4: a guard dropped while its process is RUNNING (no terminate()
\* completed, no exit detected) sends SIGKILL in the drop itself, and the
\* process is not running afterwards; a guard dropped after terminate()
\* completed sends no signal.
GuardDropped ==
    \/ mpc = "t_ret" /\ mpc' = "s_close"
    \/ mpc = "unwind_child" /\ mpc' = "exited" /\ runner_child = "Some"

C4_DropKillsRunning ==
    [][GuardDropped =>
        /\ (~terminated[run] /\ guard_child = "Some") =>
              /\ sig'[run].dkill = sig[run].dkill + 1
              /\ proc'[run] # "running"
              /\ wd' = wd
        /\ terminated[run] => sig' = sig /\ proc' = proc]_vars

C4_BothDrops ==
    /\ mpc = "exited"
    /\ terminated[1] /\ sig[1].dkill = 0 /\ sig[1].term = 1
    /\ ~terminated[2] /\ sig[2].dkill = 1 /\ sig[2].term = 0
    /\ proc[2] = "zombie"

\* C5: terminate() eventually returns with the process reaped and the flag
\* set, whatever the process does: if it ignores SIGTERM the watchdog's
\* SIGKILL ends the blocking wait (the threads of the tool scheduled
\* fairly).
C5_TerminateReturns ==
    (mpc = "t_enter") ~> (mpc = "t_ret" /\ proc[run] = "reaped" /\ terminated[run])

C5_ForcedKillEndedWait ==
    /\ mpc = "t_ret"
    /\ terminated[1] /\ proc[1] = "reaped"
    /\ hist[1].atterm = "running" /\ hist[1].grace = "running"
    /\ sig[1].wkill = 1

\* C6: in wait_until_ready, when the process has exited by the time an
\* iteration starts the call returns the process-died error, never the
\* timeout error, also when the flag of the timer is set.
C6_DiedBeforeTimeout ==
    [][(mpc = "w_check" /\ MainMoves /\ proc[run] = "zombie") =>
            /\ err' = "ProcessDied"
            /\ failed_step' = "wait_until_ready"
            /\ mpc' = "unwind"]_vars

C6_DiedWithFlagSet ==
    /\ err = "ProcessDied"
    /\ failed_step = "wait_until_ready"
    /\ timedout
    /\ proc[run] = "reaped"

\* C7: wait_until_ready is bounded by its timeout: it always returns (with
\* the timeout error once the timer has set the flag, when the process
\* stays alive and no query succeeds), the timeout error is never returned
\* before the timer has fired, and Ok only after a query succeeded.
WaitPcs == {"w_enter", "w_check", "w_timedout", "w_query"}

C7_BoundedByTimeout ==
    /\ [][(err' = "Timeout" /\ err # "Timeout") => timedout]_vars
    /\ [][(mpc \in WaitPcs /\ mpc' = "c_enter") => mpc = "w_query"]_vars
    /\ (mpc \in WaitPcs) ~> (mpc \notin WaitPcs)

\* C8: in collect_data a failed health check or a failed read aborts the
\* run with an error: no sample is recorded for the iteration, the loop does
\* not go on, and nothing of the aborted run is appended to block_heights,
\* block_speeds or peer_counts, which keep the earlier runs' results.
CollectLoopPcs == {"c_check", "c_block", "c_peer"}

C8_AbortedRunLeavesNoData ==
    /\ []((mpc \in CollectLoopPcs \/ failed_step = "collect_data") =>
            /\ Len(block_heights) = run - 1
            /\ Len(block_speeds) = run - 1
            /\ Len(peer_counts) = run - 1)
    /\ [](failed_step = "collect_data" => (err # "none" /\ mpc \in Unwinding))
    /\ [][(mpc \in CollectLoopPcs /\ err' # "none") =>
            /\ mpc' = "unwind"
            /\ failed_step' = "collect_data"
            /\ Results' = Results
            /\ <<times, cur_heights, cur_peers>>' = <<times, cur_heights, cur_peers>>]_vars

C8_SecondRunAborted ==
    /\ failed_step = "collect_data"
    /\ err \in {"ReadFailed", "ProcessDied"}
    /\ run = 2
    /\ Len(times) >= 1
    /\ Len(block_heights) = 1 /\ Len(block_speeds) = 1 /\ Len(peer_counts) = 1

\* C9: a failure at any step (start, wait_until_ready, collect_data, stop)
\* of run k aborts the remaining runs and surfaces the error, and the results
\* of the runs completed before k are still passed to analyse and plot.
RunSteps == {"start", "wait_until_ready", "collect_data", "stop"}

AnalyseRan == mpc = "plot" \/ failed_step \in {"analyse", "plot"} \/ report # <<>>

InsufficientData ==
    \/ \E i \in 1..Len(peer_counts) : peer_skip_index >= Len(peer_counts[i][2])
    \/ \E i \in 1..Len(block_speeds) : speed_skip_index >= Len(block_speeds[i][2])

C10_InsufficientDataIsAnError ==
    AnalyseRan =>
        /\ err # "Panic"
        /\ InsufficientData => err = "InsufficientData"
        /\ (~InsufficientData /\ report # <<>>) => report = analyse_report

\* C11: a collect_data run that completes records a series whose sample
\* count is within one tick of DATA_COLLECTION_DURATION /
\* DATA_COLLECTION_INTERVAL and never above that quotient rounded up,
\* whatever the latency of the iteration's check and reads.
CeilDiv(a, b) == (a + b - 1) \div b

C11_SampleCount ==
    \A i \in 1..Len(block_heights) :
        LET n == Len(block_heights[i][1])
        IN  /\ n <= CeilDiv(DATA_COLLECTION_DURATION, DATA_COLLECTION_INTERVAL)
            /\ n >= (DATA_COLLECTION_DURATION \div DATA_COLLECTION_INTERVAL) - 1

\* C12: within every run series, recorded or being collected, the elapsed
\* times are strictly increasing and the first one is 0.
IncreasingFromZero(ts) ==
    ts # <<>> => (ts[1] = 0 /\ \A j \in 2..Len(ts) : ts[j] > ts[j - 1])

C12_ElapsedIncreasing ==
    /\ IncreasingFromZero(times)
    /\ \A i \in 1..Len(block_heights) : IncreasingFromZero(block_heights[i][1])
    /\ \A i \in 1..Len(peer_counts) : IncreasingFromZero(peer_counts[i][1])

C12_UnevenSeriesRecorded ==
    \E i \in 1..Len(peer_counts) :
        LET ts == peer_counts[i][1]
        IN  /\ Len(ts) >= 3
            /\ ts[2] - ts[1] # ts[3] - ts[2]

\* C13: the speed resampling of a non-empty raw series never fails and
\* returns a series whose first point is (0, 0); when the window factor
\* exceeds the number of samples the result is the leading point alone.
\* (Stated for the series of at least two samples, whose duration is not 0.)
C13_ResampleNeverFails ==
    /\ [][(mpc = "c_finish" /\ Len(times) >= 2 /\ MainMoves) =>
            /\ err' = "none"
            /\ Len(block_speeds') = Len(block_speeds) + 1]_vars
    /\ [](\A i \in 1..Len(block_speeds) :
            /\ block_speeds[i][1][1] = 0
            /\ block_speeds[i][2][1] = <<0, 1>>
            /\ \A f \in avg_factors(block_heights[i][1]) :
                    f > Len(block_heights[i][1]) => Len(block_speeds[i][2]) = 1)

\* C14: on a raw series of constant rate (samples d ticks apart, the block
\* number growing by k a sample) every non-leading point i of the speed
\* series has the rate k / d, taken over the window between samples
\* (i - 1) * factor and i * factor, and the time of sample i * factor.
ConstantRate(ts, hs, d, k) ==
    \A j \in 2..Len(ts) : ts[j] - ts[j - 1] = d /\ hs[j] - hs[j - 1] = k

C14_ConstantRateSpeeds ==
    \A r \in 1..Len(block_speeds) :
        LET ts == block_heights[r][1]
            hs == block_heights[r][2]
            st == block_speeds[r][1]
            sv == block_speeds[r][2]
        IN  \A d \in 1..MaxGap, k \in Incs :
                (Len(ts) >= 2 /\ ConstantRate(ts, hs, d, k)) =>
                    \A f \in avg_factors(ts) : \A i \in 1..(Len(sv) - 1) :
                        /\ sv[i + 1][1] = hs[i * f + 1] - hs[(i - 1) * f + 1]
                        /\ sv[i + 1][2] = ts[i * f + 1] - ts[(i - 1) * f + 1]
                        /\ sv[i + 1][2] > 0
                        /\ sv[i + 1][1] * d = k * sv[i + 1][2]
                        /\ st[i + 1] = ts[i * f + 1]

C14_ThreeWindows ==
    /\ Len(block_speeds) = 1
    /\ Len(block_speeds[1][2]) = 4
    /\ ConstantRate(block_heights[1][1], block_heights[1][2], 2, 1)

\* C15: for every completed raw series the window factor is
\* round(sample_count / total_duration * window) and at least 1, so the
\* window count (sample_count - 1) / factor is defined.  (Stated for the
\* series of at least two samples, whose duration is not 0.)
RoundDiv(a, b) == (2 * a + b) \div (2 * b)

C15_FactorAtLeastOne ==
    (mpc = "c_finish" /\ Len(times) >= 2) =>
        \A f \in avg_factors(times) :
            /\ f >= 1
            /\ f = RoundDiv(Len(times) * BLOCK_SPEEDS_AVERAGE_DURATION, times[Len(times)])

\* C16: when start succeeded and wait_until_ready or collect_data of that
\* run fails, the tool exits only after the monitored process has been
\* stopped and the temporary directory released, and the directory is never
\* removed while the process is still running.
MidRunSteps == {"wait_until_ready", "collect_data"}

C16_CleanupAfterMidRunError ==
    /\ []((mpc = "exited" /\ failed_step \in MidRunSteps) =>
            /\ tmp_dir = "None"
            /\ runner_child = "None"
            /\ proc[run] # "running")
    /\ [][(tmp_dir = "Some" /\ tmp_dir' = "None") => proc[run] # "running"]_vars

\* C17: when fewer than two ports of the probed range are available, start
\* returns the port-unavailable error without spawning the process; when
\* start succeeds the process was spawned with two different ports.
C17_PortPair ==
    /\ [][(mpc = "probe" /\ Cardinality(avail) < 2 /\ MainMoves) =>
            /\ mpc' = "unwind"
            /\ err' = "PortUnavailable"
            /\ proc'[run] = "unborn"]_vars
    /\ [][(mpc = "spawn" /\ mpc' = "w_enter") => ports[1] # ports[2]]_vars

\* C18: EXITED (check() detected the exit and took the child out of the
\* guard) and TERMINATED (terminate() completed) are terminal: from then on
\* check(), terminate() and the drop send no signal and spawn no watchdog,
\* terminate() returns at once, the guard keeps no child once it has lost
\* it, the flag stays set and the process never runs again.
GuardExited == guard_child = "None"
GuardTerminated == terminated[run]

C18_TerminalStates ==
    /\ [][(GuardExited \/ GuardTerminated) =>
            /\ sig'[run].term = sig[run].term
            /\ sig'[run].dkill = sig[run].dkill
            /\ hist'[run].spawns = hist[run].spawns
            /\ proc'[run] # "running"
            /\ GuardExited => GuardExited'
            /\ GuardTerminated => GuardTerminated']_vars
    /\ [][(mpc = "t_enter" /\ (GuardExited \/ GuardTerminated) /\ MainMoves) =>
            mpc' = "t_ret"]_vars

C18_TerminateAndDropAfterExit ==
    /\ mpc = "dropped"
    /\ GuardExited
    /\ ~GuardTerminated
    /\ err = "ProcessDied"
    /\ hist[run].calls >= 1
    /\ sig[run].term = 0 /\ sig[run].dkill = 0

\* C19: the terminated flag of a guard only ever changes from false to
\* true, by the one store of terminate(), which runs at most once a guard;
\* while it is true the child has been reaped by terminate()'s wait.
C19_FlagSetOnce ==
    /\ [](\A r \in Runs : terminated[r] =>
            /\ proc[r] = "reaped"
            /\ hist[r].waits = 1)
    /\ [][\A r \in Runs :
            /\ terminated[r] => terminated'[r]
            /\ (~terminated[r] /\ terminated'[r]) => (r = run /\ mpc = "t_store")]_vars
    /\ [][(mpc = "t_store" /\ MainMoves) => ~terminated[run]]_vars

C19_EarlierFlagsStaySet ==
    /\ run = 3
    /\ terminated[1] /\ terminated[2] /\ ~terminated[3]
    /\ proc[3] = "running"

\* C20: the Runner has at most one unreaped monitored process at any time;
\* start of run i + 1 begins only after stop of run i has terminated and
\* reaped the process of run i, dropped its guard and released its
\* directory; within a run the steps come in the order start,
\* wait_until_ready, collect_data, stop.
StartPcs == {"start", "probe", "spawn"}
CollectPcs == {"c_enter", "c_check", "c_block", "c_peer", "c_finish"}
StopPcs == {"s_enter", "t_enter", "t_sigterm", "t_spawn", "t_wait", "t_store",
            "t_ret", "s_close"}
RunPcs == StartPcs \cup WaitPcs \cup CollectPcs \cup StopPcs

Phase(pc) ==
    IF pc \in StartPcs THEN 1
    ELSE IF pc \in WaitPcs THEN 2
    ELSE IF pc \in CollectPcs THEN 3
    ELSE 4

Unreaped == {r \in Runs : proc[r] \in {"running", "zombie"}}

C20_OneProcessAtATime ==
    /\ [](Cardinality(Unreaped) <= 1)
    /\ [](\A r \in Runs : r > run => proc[r] = "unborn")
    /\ []((mpc \in StartPcs /\ run > 1) =>
            /\ proc[run - 1] = "reaped"
            /\ terminated[run - 1]
            /\ runner_child = "None" /\ guard_child = "None"
            /\ tmp_dir = "None")
    /\ [][(mpc \in RunPcs /\ mpc' \in RunPcs /\ run' = run) =>
            Phase(mpc') \in {Phase(mpc), Phase(mpc) + 1}]_vars
    /\ [][run' # run =>
            /\ run' = run + 1
            /\ mpc = "s_close" /\ mpc' = "start"]_vars

C20_ThirdRunAlone ==
    /\ run = 3
    /\ mpc = "c_peer"
    /\ proc = <<"reaped", "reaped", "running">>

\* C21: block_heights, block_speeds and peer_counts are append-only and
\* aligned: they always have the same length; they change only when a
\* collect_data call returns Ok, which appends one entry to each (the
\* samples of that run) and leaves the earlier entries as they were; within
\* each entry the time vector and the value vector have the same length.
CollectReturnsOk == mpc = "c_finish" /\ mpc' = "s_enter"

AppendsOne(old, new) == Len(new) = Len(old) + 1 /\ SubSeq(new, 1, Len(old)) = old

EntriesAligned(lines) == \A i \in 1..Len(lines) : Len(lines[i][1]) = Len(lines[i][2])

====
